---- MODULE Spec2Model ----
(***************************************************************************)
(* Control plane of the LiquidIO VF poll-mode driver                       *)
(* (drivers/net/liquidio/lio_ethdev.c): soft commands and their completion *)
(* polling, the link-state synchronizer, lio_dev_configure, lio_dev_start, *)
(* lio_dev_tx_queue_setup and lio_dev_link_update.                         *)
(*                                                                         *)
(* Two threads run driver code: "tick", the EAL alarm thread that runs     *)
(* lio_sync_link_state_check, and "app", the application's control thread  *)
(* that calls the eth_dev_ops.  The device completes commands on its own.  *)
(***************************************************************************)
EXTENDS Integers, FiniteSets, Sequences, TLC

\* ------------------------------------------------------------------ bounds
\* Iteration budget of a completion wait (the driver's value is 10000).
LIO_MAX_CMD_TIMEOUT == 2
\* Buffers of the soft-command pool.
NumSC == 1
\* Alarms that may be pending at once.
MaxAlarms == 1
\* Calls the application makes.
MaxCalls == 3
\* Polls cn23xx_pfvf_handshake waits for the PF's answer.
HandshakeBudget == 2

Threads == {"tick", "app"}
Buffers == 1..NumSC

\* --------------------------------------------------- 64-bit words as bit sets
\* A uint64_t is the set of its set bit positions.
Bits == 0..63

Bit(S, i) == IF i \in S THEN 1 ELSE 0

Shr(S, k) == {b - k : b \in {x \in S : x >= k}}

And64(S, T) == S \cap T

RECURSIVE AddFrom(_, _, _, _)
AddFrom(S, T, i, c) ==
    IF i > 63 THEN {}
    ELSE LET s == Bit(S, i) + Bit(T, i) + c
         IN  (IF s % 2 = 1 THEN {i} ELSE {}) \cup AddFrom(S, T, i + 1, s \div 2)

\* S + T modulo 2^64
Add64(S, T) == AddFrom(S, T, 0, 0)

RECURSIVE SubFrom(_, _, _, _)
SubFrom(S, T, i, borrow) ==
    IF i > 63 THEN {}
    ELSE LET d == Bit(S, i) - Bit(T, i) - borrow
         IN  (IF (d + 2) % 2 = 1 THEN {i} ELSE {})
                 \cup SubFrom(S, T, i + 1, IF d < 0 THEN 1 ELSE 0)

\* S - T modulo 2^64
Sub64(S, T) == SubFrom(S, T, 0, 0)

RECURSIVE Pow2(_)
Pow2(n) == IF n = 0 THEN 1 ELSE 2 * Pow2(n - 1)

RECURSIVE SumBits(_)
SumBits(S) ==
    IF S = {} THEN 0
    ELSE LET b == CHOOSE x \in S : TRUE IN Pow2(b) + SumBits(S \ {b})

\* The value of a word known to be below 2^8.
ToNat(S) == SumBits(S \cap (0..7))

M5555 == {b \in Bits : b % 2 = 0}        \* 0x5555555555555555
M3333 == {b \in Bits : b % 4 < 2}        \* 0x3333333333333333
M0F0F == {b \in Bits : b % 8 < 4}        \* 0x0F0F0F0F0F0F0F0F
M00FF == 0..7                            \* 0x00000000000000FF

hweight_step1(w) == Sub64(w, And64(Shr(w, 1), M5555))

hweight_step2(res) == Add64(And64(res, M3333), And64(Shr(res, 2), M3333))

hweight_step3(res) == And64(Add64(res, Shr(res, 4)), M0F0F)

lio_hweight64(w) ==
    LET r1 == hweight_step1(w)
        r2 == hweight_step2(r1)
        r3 == hweight_step3(r2)
        r4 == Add64(r3, Shr(r3, 8))
        r5 == Add64(r4, Shr(r4, 16))
    IN  ToNat(And64(Add64(r5, Shr(r5, 32)), M00FF))

\* lio_swap_8B_data on one 64-bit word: the bytes in reverse order.
Swap64(S) == {8 * (7 - (b \div 8)) + (b % 8) : b \in S}

\* ------------------------------------------------------- wire structures
\* union octeon_link_status, host view: link_up is bit 23, speed bits 24..39.
LinkUpBit == 23
SpeedShift == 24
SpeedField == 0..15

LIO_LINK_SPEED_10000 == 10000

link_up_of(w) == Bit(w, LinkUpBit)

speed_of(w) == SumBits(Shr(w, SpeedShift) \cap SpeedField)

\* Host-order link-status words the firmware may report:
\* down, up at 10000, up at 1000.
LinkWordDown == {}
LinkWordUp10G == {23, 28, 32, 33, 34, 37}
LinkWordUp1G == {23, 27, 29, 30, 31, 32, 33}
LinkWords == {LinkWordDown, LinkWordUp10G, LinkWordUp1G}

\* The hardware address as the device holds it in the response buffer:
\* bytes 0,0,m0..m5 in memory, read here as a little-endian 64-bit word.
FwHwAddr == {17, 56}

\* Byte k (in memory order) of a 64-bit word.
ByteOf(w, k) == SumBits(Shr(w, 8 * k) \cap (0..7))

\* mac[i] = *((uint8_t *)&hw_addr + 2 + i)
MacOf(w) == [i \in 0..5 |-> ByteOf(w, 2 + i)]

\* The queue numbers the firmware maps to the set bits of a mask, in order.
RECURSIVE FwQueueIds(_)
FwQueueIds(mask) ==
    IF mask = {} THEN <<>>
    ELSE LET m == CHOOSE b \in mask : \A c \in mask : b <= c
         IN  <<m>> \o FwQueueIds(mask \ {m})

ZeroResp == [link |-> {}, iqmask |-> {}, oqmask |-> {}, hw_addr |-> {}]

\* struct rte_eth_link, the three fields the driver writes.
LinkDownValue == [link_status |-> "DOWN", link_speed |-> "NONE", link_duplex |-> "HALF"]

\* lio_dev_link_update without line 170: the default case keeps full duplex.
LinkUpValue_KeepsDuplex(speed) ==
    IF speed = 10000
    THEN [link_status |-> "UP", link_speed |-> "10G", link_duplex |-> "FULL"]
    ELSE [link_status |-> "UP", link_speed |-> "NONE", link_duplex |-> "FULL"]

\* lio_dev_link_update, lines 162-171: the link built for an interface that is up.
LinkUpValue(speed) ==
    IF speed = LIO_LINK_SPEED_10000
    THEN [link_status |-> "UP", link_speed |-> "10G", link_duplex |-> "FULL"]
    ELSE [link_status |-> "UP", link_speed |-> "NONE", link_duplex |-> "HALF"]

\* What lio_dev_link_update builds from a cached link-status word.
LinkOf(w) == IF link_up_of(w) = 0 THEN LinkDownValue ELSE LinkUpValue(speed_of(w))

\* ------------------------------------------------------------------- state
VARIABLES
    port_configured,   \* lio_dev->port_configured
    intf_open,         \* lio_dev->intf_open
    nb_queues,         \* lio_dev->nb_rx_queues, nb_tx_queues
    linfo,             \* lio_dev->linfo
    mac_addr,          \* eth_dev->data->mac_addrs[0]
    glist,             \* sizes of lio_dev->glist_lock, glist_head (0: NULL)
    dev_link,          \* eth_dev->data->dev_link
    instr_queue,       \* lio_dev->instr_queue[]: queue number -> max_count
    tx_queues,         \* eth_dev->data->tx_queues[]: q_no -> queue number
    sc_owner,          \* soft-command pool: who holds each buffer
    status_word,       \* *sc->status_word, the last word of the response
    resp,              \* the response buffer, as the device wrote it
    cmds,              \* commands in flight with the device or registered
    alarms,            \* pending lio_sync_link_state_check alarms
    pc, sc, timeout,   \* per thread: position, soft command, poll budget
    lu,                \* per thread: locals of lio_dev_link_update
    cfg_num,           \* lio_dev_configure: num_iqueues, num_oqueues
    ctrl,              \* lio_send_rx_ctrl_cmd: cond, start_stop, result, return place
    app_op, app_ret,   \* the application's call and what it returned
    calls,             \* how many calls the application has made
    crashed,           \* the process took a fault
    fw_iqmasks, fw_oqmasks,  \* the masks the firmware may grant
    fw_links,          \* the link-status words the firmware may report
    req_counts,        \* the queue counts the application may request
    tx_descs,          \* the descriptor counts the application may ask for
    hs_alarms,         \* pending lio_check_pf_hs_response alarms
    coproc_tics_per_us,  \* lio_dev->pfvf_hsword.coproc_tics_per_us
    mbox               \* lio_dev->mbox: "none", "up" or "freed"

cfg_vars == <<port_configured, nb_queues, linfo, mac_addr, glist>>
queue_vars == <<instr_queue, tx_queues>>
driver_vars == <<cfg_vars, intf_open, dev_link, queue_vars>>
buf_vars == <<sc_owner, status_word, resp>>
chan_vars == <<buf_vars, cmds>>
local_vars == <<sc, timeout, lu, cfg_num, ctrl>>
app_vars == <<app_op, app_ret, calls>>
thread_vars == <<pc, local_vars, app_vars>>
input_vars == <<fw_iqmasks, fw_oqmasks, fw_links, req_counts, tx_descs>>
attach_vars == <<hs_alarms, coproc_tics_per_us, mbox>>
\* What no handler of the attached device changes.
env_vars == <<input_vars, attach_vars>>
vars == <<driver_vars, chan_vars, thread_vars, alarms, crashed, env_vars>>

\* errno values the handlers return.
ENOMEM == 12
ENODEV == 19
EINVAL == 22
ENOTSUP == 95

\* Requested queue counts, queue numbers, descriptor counts, granted masks.
ReqCounts == {[rx |-> 1, tx |-> 1], [rx |-> 1, tx |-> 2], [rx |-> 2, tx |-> 2]}
QueueNos == {0, 1}
TxDescs == {1, 2}
CfgIqMasks == {{}, {0}, {0, 2}, {7, 8, 31, 32, 63}}
CfgOqMasks == {{}, {0, 1}}

ZeroLinfo == [link |-> {}, num_rxpciq |-> 0, num_txpciq |-> 0,
              rxpciq |-> <<>>, txpciq |-> <<>>, hw_addr |-> {}, gmxport |-> 0]

NoLu == [link |-> LinkDownValue, dst |-> LinkDownValue, cont |-> "idle"]
NoCtrl == [cond |-> 0, start_stop |-> 0, ret |-> 0, cont |-> "idle"]
\* num_iqueues and num_oqueues are not set before line 565 (-1: no value yet).
NoCfgNum == [iq |-> -1, oq |-> -1]

\* The timing references the PF may publish.
TicsValues == {1, 2}

\* The device after lio_eth_dev_init: private data zeroed, iq 0 set up, the
\* handshake done and its poll over.
InitCommon ==
    /\ hs_alarms = 0
    /\ coproc_tics_per_us \in {1}
    /\ mbox = "up"
    /\ port_configured = 0
    /\ intf_open = 0
    /\ nb_queues = [rx |-> 0, tx |-> 0]
    /\ linfo = ZeroLinfo
    /\ mac_addr = [i \in 0..5 |-> 0]
    /\ glist = [lock |-> 0, head |-> 0]
    /\ dev_link = LinkDownValue
    /\ instr_queue = [q \in {0} |-> 1]
    /\ tx_queues = <<>>
    /\ sc_owner = [b \in Buffers |-> "pool"]
    /\ status_word = [b \in Buffers |-> "ZERO"]
    /\ resp = [b \in Buffers |-> ZeroResp]
    /\ cmds = {}
    /\ alarms = 0
    /\ pc = [t \in Threads |-> "idle"]
    /\ sc = [t \in Threads |-> 0]
    /\ timeout = [t \in Threads |-> 0]
    /\ lu = [t \in Threads |-> NoLu]
    /\ cfg_num = NoCfgNum
    /\ ctrl = NoCtrl
    /\ app_op = <<"none">>
    /\ app_ret = 0
    /\ calls = 0
    /\ crashed = FALSE

\* The whole driver, against a firmware that grants queue 0.
Init ==
    /\ InitCommon
    /\ fw_iqmasks = {{0}}
    /\ fw_oqmasks = {{0}}
    /\ fw_links = LinkWords
    /\ req_counts = {[rx |-> 2, tx |-> 2]}
    /\ tx_descs = {1}

\* lio_dev_configure and lio_dev_tx_queue_setup alone, against a firmware
\* that may grant any of CfgIqMasks and CfgOqMasks.
InitCfg ==
    /\ InitCommon
    /\ fw_iqmasks = CfgIqMasks
    /\ fw_oqmasks = CfgOqMasks
    /\ fw_links = LinkWords
    /\ req_counts = ReqCounts
    /\ tx_descs = TxDescs

\* ------------------------------------------------- soft command channel
\* A command is [kind, buf, owner, pend, reg]: pend while the device has not
\* completed it, reg while it is linked in the response registry, owner the
\* thread whose call submitted it ("none" once that call released or left it).
\* (A completed command nobody owns is kept only while its callback is still
\* to run; control commands alone have one.)
Normalise(C) ==
    {e \in C : e.owner # "none" \/ e.pend \/ (e.reg /\ e.kind = "CTRL")}

Abandoned(C, t) ==
    Normalise({IF e.owner = t THEN [e EXCEPT !.owner = "none"] ELSE e : e \in C})

\* lio_send_soft_command / lio_send_ctrl_pkt, once posted: the command is in
\* flight and registered.
Registered(C, kind, b, t) ==
    C \cup {[kind |-> kind, buf |-> b, owner |-> t, pend |-> TRUE, reg |-> TRUE]}

\* lio_flush_iq: the registry drops the commands the device has completed.
Flushed(C) ==
    Normalise({IF e.reg /\ ~e.pend THEN [e EXCEPT !.reg = FALSE] ELSE e : e \in C})

\* Completed control commands a flush finds: their callback sets ctrl_cmd->cond.
CtrlDone(C, o) ==
    \E e \in C : e.kind = "CTRL" /\ e.reg /\ ~e.pend /\ e.owner = o

IqUsable == 0 \in DOMAIN instr_queue

\* The pool hands out its first free buffer.
FreeBuffers ==
    LET free == {b \in Buffers : sc_owner[b] = "pool"}
    IN  {b \in free : \A c \in free : b <= c}

\* lio_alloc_soft_command by thread t: buffer b leaves the pool with its
\* status word set to LIO_COMPLETION_WORD_INIT.
AllocSoftCommand(t, b) ==
    /\ sc_owner' = [sc_owner EXCEPT ![b] = t]
    /\ status_word' = [status_word EXCEPT ![b] = "INIT"]
    /\ sc' = [sc EXCEPT ![t] = b]

\* A use of an instruction queue that does not exist, or of bookkeeping that
\* was never allocated: the process faults.
Fault ==
    /\ crashed' = TRUE
    /\ UNCHANGED <<driver_vars, chan_vars, thread_vars, alarms, env_vars>>

\* The application is inside lio_send_rx_ctrl_cmd with its ctrl_cmd set up
\* (lines 79-96): the frame a returned call of the same function had.
CtrlCmdLive == pc["app"] \in {"rx_wait", "rx_wflush"}

\* lio_flush_iq(lio_dev, lio_dev->instr_queue[0]) by thread t, then on to `to`.
\* The callback of a completed control command whose lio_send_rx_ctrl_cmd has
\* returned writes cond through a pointer into a dead stack frame: the write
\* may go unnoticed, bring the process down, or land in the ctrl_cmd of the
\* call that has the frame now.
FlushIq(t, to) ==
    IF ~IqUsable THEN Fault
    ELSE \/ /\ CtrlDone(cmds, "none")
            /\ Fault
         \/ \E stale \in {FALSE} \cup {CtrlDone(cmds, "none") /\ CtrlCmdLive} :
            /\ cmds' = Flushed(cmds)
            /\ ctrl' = IF CtrlDone(cmds, "app") \/ stale
                       THEN [ctrl EXCEPT !.cond = 1] ELSE ctrl
            /\ pc' = [pc EXCEPT ![t] = to]
            /\ UNCHANGED <<driver_vars, buf_vars, sc, timeout, lu, cfg_num, app_vars,
                           alarms, crashed, env_vars>>

\* while ((*sc->status_word == LIO_COMPLETION_WORD_INIT) && --timeout)
PollStatus(t, body, out) ==
    /\ IF status_word[sc[t]] = "INIT"
       THEN /\ timeout' = [timeout EXCEPT ![t] = timeout[t] - 1]
            /\ pc' = [pc EXCEPT ![t] = IF timeout[t] - 1 # 0 THEN body ELSE out]
       ELSE /\ timeout' = timeout
            /\ pc' = [pc EXCEPT ![t] = out]
    /\ UNCHANGED <<driver_vars, chan_vars, sc, lu, cfg_num, ctrl, app_vars,
                   alarms, crashed, env_vars>>

\* lio_free_soft_command(sc) by thread t: the buffer goes back to the pool.
\* (The buffer is zeroed here rather than at its next allocation: nothing reads
\* a pooled buffer.)
FreeSoftCommand(t) ==
    /\ sc_owner' = [sc_owner EXCEPT ![sc[t]] = "pool"]
    /\ status_word' = [status_word EXCEPT ![sc[t]] = "ZERO"]
    /\ resp' = [resp EXCEPT ![sc[t]] = ZeroResp]
    /\ cmds' = Abandoned(cmds, t)
    /\ sc' = [sc EXCEPT ![t] = 0]

\* resp->status as the caller reads it: the last 64-bit word of the response
\* buffer, which is the word sc->status_word points at.
RespStatus(b) == status_word[b]

\* The application makes call op, its arguments included.
Call(op) ==
    /\ calls < MaxCalls
    /\ app_op' = op
    /\ calls' = calls + 1

\* The application returns from a call with result r.
Return(r) ==
    /\ app_ret' = r
    /\ pc' = [pc EXCEPT !["app"] = "returned"]

\* The application has looked at the result and may call again.
app_return ==
    /\ ~crashed
    /\ pc["app"] = "returned"
    /\ pc' = [pc EXCEPT !["app"] = "idle"]
    /\ app_op' = <<"none">>
    /\ app_ret' = 0
    /\ calls' = calls
    /\ UNCHANGED <<driver_vars, chan_vars, local_vars, alarms, crashed, env_vars>>

\* ------------------------------------------------------ lio_dev_link_update
\* Called by thread t, which goes on at `cont` when it returns.
CallLinkUpdate(t, cont) ==
    /\ pc' = [pc EXCEPT ![t] = "lu_up"]
    /\ lu' = [lu EXCEPT ![t].cont = cont]

\* Lines 147-160: initialise link, read linfo.link.s.link_up.
lu_up(t) ==
    /\ ~crashed
    /\ pc[t] = "lu_up"
    /\ lu' = [lu EXCEPT ![t].link = LinkDownValue]
    /\ pc' = [pc EXCEPT ![t] = IF link_up_of(linfo.link) = 0
                               THEN "lu_read_dst" ELSE "lu_speed"]
    /\ UNCHANGED <<driver_vars, chan_vars, sc, timeout, cfg_num, ctrl, app_vars,
                   alarms, crashed, env_vars>>

\* Lines 162-171: read linfo.link.s.speed.
lu_speed(t) ==
    /\ ~crashed
    /\ pc[t] = "lu_speed"
    /\ lu' = [lu EXCEPT ![t].link = LinkUpValue(speed_of(linfo.link))]
    /\ pc' = [pc EXCEPT ![t] = "lu_read_dst"]
    /\ UNCHANGED <<driver_vars, chan_vars, sc, timeout, cfg_num, ctrl, app_vars,
                   alarms, crashed, env_vars>>

\* lio_dev_atomic_write_link_status, line 118: the read of *dst that becomes
\* cmpset's expected value.
lu_read_dst(t) ==
    /\ ~crashed
    /\ pc[t] = "lu_read_dst"
    /\ lu' = [lu EXCEPT ![t].dst = dev_link]
    /\ pc' = [pc EXCEPT ![t] = "lu_cmpset"]
    /\ UNCHANGED <<driver_vars, chan_vars, sc, timeout, cfg_num, ctrl, app_vars,
                   alarms, crashed, env_vars>>

\* A result that tells whether the published value changed: -1 also when
\* the value written equals the one published before.
LinkUpdateResult_OnChange(link) ==
    IF link.link_status = "DOWN" \/ link = dev_link THEN -1 ELSE 0

\* The value lio_dev_link_update returns once the write went through:
\* old is zeroed and never filled, so old.link_status is ETH_LINK_DOWN.
LinkUpdateResult(link) == IF link.link_status = "DOWN" THEN -1 ELSE 0

\* What rte_atomic64_cmpset(dst, expected, src) leaves in *dst.
CmpSet(cur, expected, src) == IF cur = expected THEN src ELSE cur

\* Lines 118-122 and lio_dev_link_update's return.  A call by the application
\* returns to the application; the tick and lio_dev_configure drop the result.
lu_cmpset(t) ==
    /\ ~crashed
    /\ pc[t] = "lu_cmpset"
    /\ dev_link' = CmpSet(dev_link, lu[t].dst, lu[t].link)
    /\ lu' = [lu EXCEPT ![t] = NoLu]
    /\ IF lu[t].cont = "idle"
       THEN Return(IF dev_link = lu[t].dst THEN LinkUpdateResult(lu[t].link) ELSE -1)
       ELSE /\ pc' = [pc EXCEPT ![t] = lu[t].cont]
            /\ app_ret' = app_ret
    /\ UNCHANGED <<cfg_vars, intf_open, queue_vars, chan_vars, sc, timeout, cfg_num,
                   ctrl, app_op, calls, alarms, crashed, env_vars>>

\* ---------------------------------------------- link-state synchronizer
\* The alarm thread takes a pending alarm and runs lio_sync_link_state_check.
alarm_fire ==
    /\ ~crashed
    /\ pc["tick"] = "idle"
    /\ alarms > 0
    /\ alarms' = alarms - 1
    /\ pc' = [pc EXCEPT !["tick"] = "sync_check"]
    /\ UNCHANGED <<driver_vars, chan_vars, local_vars, app_vars, crashed, env_vars>>

\* Line 438: if (lio_dev->port_configured) lio_dev_get_link_status(eth_dev);
sync_check ==
    /\ ~crashed
    /\ pc["tick"] = "sync_check"
    /\ pc' = [pc EXCEPT !["tick"] = IF port_configured = 1
                                    THEN "gls_open" ELSE "sync_rearm"]
    /\ UNCHANGED <<driver_vars, chan_vars, local_vars, app_vars, alarms, crashed,
                   env_vars>>

\* Line 386: if (!lio_dev->intf_open) return;
gls_open ==
    /\ ~crashed
    /\ pc["tick"] = "gls_open"
    /\ pc' = [pc EXCEPT !["tick"] = IF intf_open = 0 THEN "sync_rearm" ELSE "gls_alloc"]
    /\ UNCHANGED <<driver_vars, chan_vars, local_vars, app_vars, alarms, crashed,
                   env_vars>>

\* Lines 389-392: sc = lio_alloc_soft_command(...); if (sc == NULL) return;
gls_alloc ==
    /\ ~crashed
    /\ pc["tick"] = "gls_alloc"
    /\ IF FreeBuffers = {}
       THEN /\ pc' = [pc EXCEPT !["tick"] = "sync_rearm"]
            /\ UNCHANGED <<sc_owner, status_word, sc>>
       ELSE \E b \in FreeBuffers :
            /\ AllocSoftCommand("tick", b)
            /\ pc' = [pc EXCEPT !["tick"] = "gls_send"]
    /\ UNCHANGED <<driver_vars, resp, cmds, timeout, lu, cfg_num, ctrl, app_vars,
                   alarms, crashed, env_vars>>

\* Lines 394-402 (and 380): prepare, set the wait time, send.
gls_send ==
    /\ ~crashed
    /\ pc["tick"] = "gls_send"
    /\ IF ~IqUsable THEN Fault
       ELSE /\ \/ /\ cmds' = Registered(cmds, "INFO", sc["tick"], "tick")
                  /\ timeout' = [timeout EXCEPT !["tick"] = LIO_MAX_CMD_TIMEOUT]
                  /\ pc' = [pc EXCEPT !["tick"] = "gls_wait"]
               \/ /\ cmds' = cmds                      \* LIO_IQ_SEND_FAILED
                  /\ timeout' = timeout
                  /\ pc' = [pc EXCEPT !["tick"] = "gls_fail"]
            /\ UNCHANGED <<driver_vars, buf_vars, sc, lu, cfg_num, ctrl, app_vars,
                           alarms, crashed, env_vars>>

\* Line 404: the loop condition.
gls_wait ==
    /\ ~crashed
    /\ pc["tick"] = "gls_wait"
    /\ PollStatus("tick", "gls_flush", "gls_resp")

\* Lines 405-406: the loop body.
gls_flush ==
    /\ ~crashed
    /\ pc["tick"] = "gls_flush"
    /\ FlushIq("tick", "gls_wait")

\* Line 409: if (resp->status) goto get_status_fail;
GetStatusFail(status) == status # "ZERO"

\* Lines 409-419: check the status, swap the link word, compare it with the
\* cached one and store it when it differs.
gls_resp ==
    /\ ~crashed
    /\ pc["tick"] = "gls_resp"
    /\ timeout' = [timeout EXCEPT !["tick"] = 0]
    /\ IF GetStatusFail(RespStatus(sc["tick"]))
       THEN /\ pc' = [pc EXCEPT !["tick"] = "gls_fail"]
            /\ UNCHANGED <<linfo, lu>>
       ELSE LET ls == Swap64(resp[sc["tick"]].link)
            IN  IF linfo.link # ls
                THEN /\ linfo' = [linfo EXCEPT !.link = ls]
                     /\ CallLinkUpdate("tick", "gls_updated")
                ELSE /\ pc' = [pc EXCEPT !["tick"] = "gls_free"]
                     /\ UNCHANGED <<linfo, lu>>
    /\ UNCHANGED <<port_configured, nb_queues, mac_addr, glist, intf_open, dev_link,
                   queue_vars, chan_vars, sc, cfg_num, ctrl, app_vars, alarms,
                   crashed, env_vars>>

\* Lines 421-423 and 425-426: lio_free_soft_command(sc) on either path
\* ("gls_updated": back from lio_dev_link_update, at the end of line 418).
gls_free ==
    /\ ~crashed
    /\ pc["tick"] \in {"gls_updated", "gls_free", "gls_fail"}
    /\ FreeSoftCommand("tick")
    /\ pc' = [pc EXCEPT !["tick"] = "sync_rearm"]
    /\ UNCHANGED <<driver_vars, timeout, lu, cfg_num, ctrl, app_vars, alarms,
                   crashed, env_vars>>

\* Line 444 without the test: the tick is armed again whatever intf_open holds.
RearmWanted_Always(open) == TRUE

\* Line 444: if (lio_dev->intf_open)
RearmWanted(open) == open # 0

\* Lines 444-446: re-arm while the interface is open.  rte_eal_alarm_set can
\* fail; its result is not looked at here.
sync_rearm ==
    /\ ~crashed
    /\ pc["tick"] = "sync_rearm"
    /\ pc' = [pc EXCEPT !["tick"] = "idle"]
    /\ IF RearmWanted(intf_open)
       THEN \/ alarms < MaxAlarms /\ alarms' = alarms + 1
            \/ alarms' = alarms
       ELSE alarms' = alarms
    /\ UNCHANGED <<driver_vars, chan_vars, local_vars, app_vars, crashed, env_vars>>

\* ------------------------------------------------------------- the device
\* The device completes command e: it writes the response and the status
\* word to the command's buffer.  A command whose buffer went back to the pool
\* is completed all the same; the write lands in whatever holds the buffer now.
DeviceWrite(e, st, payload) ==
    /\ cmds' = Normalise((cmds \ {e}) \cup {[e EXCEPT !.pend = FALSE]})
    /\ IF e.kind # "CTRL" /\ sc_owner[e.buf] \in Threads
       THEN /\ status_word' = [status_word EXCEPT ![e.buf] = st]
            /\ resp' = IF st = "ZERO" THEN [resp EXCEPT ![e.buf] = payload] ELSE resp
       ELSE UNCHANGED <<status_word, resp>>
    /\ UNCHANGED <<driver_vars, sc_owner, thread_vars, alarms, crashed, env_vars>>

Pending(kind) == {e \in cmds : e.pend /\ e.kind = kind}

\* The link word travels in wire order.
InfoResp(w) == [ZeroResp EXCEPT !.link = Swap64(w)]

IfCfgResp(w, iqm, oqm) ==
    [link |-> Swap64(w), iqmask |-> Swap64(iqm), oqmask |-> Swap64(oqm),
     hw_addr |-> FwHwAddr]

device_complete_info ==
    /\ ~crashed
    /\ \E e \in Pending("INFO") :
          \/ \E w \in fw_links : DeviceWrite(e, "ZERO", InfoResp(w))
          \/ DeviceWrite(e, "ERR", ZeroResp)

device_complete_if_cfg ==
    /\ ~crashed
    /\ \E e \in Pending("IF_CFG") :
          \/ \E w \in fw_links : \E iqm \in fw_iqmasks : \E oqm \in fw_oqmasks :
                DeviceWrite(e, "ZERO", IfCfgResp(w, iqm, oqm))
          \/ DeviceWrite(e, "ERR", ZeroResp)

device_complete_ctrl ==
    /\ ~crashed
    /\ \E e \in Pending("CTRL") : DeviceWrite(e, "ZERO", ZeroResp)

\* ------------------------------------------------------ lio_dev_configure
\* Lines 503-504 with && for ||.
CountsDiffer_Both(have, want) == have.rx # want.rx /\ have.tx # want.tx

\* Lines 503-504: the recorded counts against the requested ones.
CountsDiffer(have, want) == have.rx # want.rx \/ have.tx # want.tx

\* rte_eth_dev_configure calls dev_configure with the requested counts in
\* eth_dev->data->nb_rx_queues and nb_tx_queues (req).
\* Lines 499-518: the re-configuration check, the recorded counts, the
\* allocation of the soft command.
cfg_entry ==
    /\ ~crashed
    /\ pc["app"] = "idle"
    /\ \E req \in req_counts :
       /\ Call(<<"configure", req>>)
       /\ IF port_configured = 1
          THEN /\ IF CountsDiffer(nb_queues, req)
                  THEN Return(-ENOTSUP)
                  ELSE Return(0)
               /\ UNCHANGED <<nb_queues, sc_owner, status_word, sc>>
          ELSE /\ nb_queues' = req
               /\ IF FreeBuffers = {}
                  THEN /\ Return(-ENOMEM)
                       /\ UNCHANGED <<sc_owner, status_word, sc>>
                  ELSE \E b \in FreeBuffers :
                       /\ AllocSoftCommand("app", b)
                       /\ pc' = [pc EXCEPT !["app"] = "cfg_send"]
                       /\ app_ret' = app_ret
    /\ UNCHANGED <<port_configured, linfo, mac_addr, glist, intf_open, dev_link,
                   queue_vars, resp, cmds, timeout, lu, cfg_num, ctrl, alarms,
                   crashed, env_vars>>

\* Lines 520-545 (and 489): build the request, set the wait time, send.
cfg_send ==
    /\ ~crashed
    /\ pc["app"] = "cfg_send"
    /\ IF ~IqUsable THEN Fault
       ELSE /\ \/ /\ cmds' = Registered(cmds, "IF_CFG", sc["app"], "app")
                  /\ timeout' = [timeout EXCEPT !["app"] = LIO_MAX_CMD_TIMEOUT]
                  /\ pc' = [pc EXCEPT !["app"] = "cfg_wait"]
               \/ /\ cmds' = cmds                      \* LIO_IQ_SEND_FAILED
                  /\ timeout' = timeout
                  /\ pc' = [pc EXCEPT !["app"] = "cfg_fail"]
            /\ UNCHANGED <<driver_vars, buf_vars, sc, lu, cfg_num, ctrl, app_vars,
                           alarms, crashed, env_vars>>

\* Line 550: the loop condition.
cfg_wait ==
    /\ ~crashed
    /\ pc["app"] = "cfg_wait"
    /\ PollStatus("app", "cfg_flush", "cfg_resp")

\* Lines 551-553: lio_flush_iq, lio_process_ordered_list, rte_delay_ms.
cfg_flush ==
    /\ ~crashed
    /\ pc["app"] = "cfg_flush"
    /\ FlushIq("app", "cfg_wait")

\* Lines 556-557 with the status taken as failed only when the firmware
\* reported an error.
NicConfigFail_Reported(retval) == retval = "ERR"

\* Lines 556-557: retval = resp->status; if (retval) goto nic_config_fail;
NicConfigFail(retval) == retval # "ZERO"

\* Lines 568-574 left out: the counts are not validated.
BadQueues_Never(num_iqueues, num_oqueues) == FALSE

\* Line 568 with && for ||.
BadQueues_Both(num_iqueues, num_oqueues) == num_iqueues = 0 /\ num_oqueues = 0

\* if (!(num_iqueues) || !(num_oqueues)) goto nic_config_fail;
BadQueues(num_iqueues, num_oqueues) == num_iqueues = 0 \/ num_oqueues = 0

\* for (i = 0; i < n; i++) table[i] = ids[i]: the entries from n on keep what
\* they held (an entry the firmware's table does not have reads as 0).
CopyIds(table, ids, n) ==
    LET len == IF n > Len(table) THEN n ELSE Len(table)
    IN  [i \in 1..len |-> IF i <= n
                          THEN (IF i <= Len(ids) THEN ids[i] ELSE 0)
                          ELSE table[i]]

\* Lines 583-606: what a validated response records in lio_dev->linfo.
\* info is resp->cfg_info after lio_swap_8B_data.
RecordedLinfo(info, num_iqueues, num_oqueues) ==
    [link |-> info.link,
     num_rxpciq |-> num_oqueues,
     num_txpciq |-> num_iqueues,
     rxpciq |-> CopyIds(linfo.rxpciq, FwQueueIds(info.oqmask), num_oqueues),
     txpciq |-> CopyIds(linfo.txpciq, FwQueueIds(info.iqmask), num_iqueues),
     hw_addr |-> Swap64(info.hw_addr),
     gmxport |-> 0]

\* Lines 562-563: resp->cfg_info after lio_swap_8B_data.
SwappedInfo(r) ==
    [link |-> Swap64(r.link), iqmask |-> Swap64(r.iqmask),
     oqmask |-> Swap64(r.oqmask), hw_addr |-> Swap64(r.hw_addr)]

\* Lines 556-612: check the status, swap cfg_info, count the queues, record
\* linfo and the MAC address.
cfg_resp ==
    /\ ~crashed
    /\ pc["app"] = "cfg_resp"
    /\ timeout' = [timeout EXCEPT !["app"] = 0]
    /\ IF NicConfigFail(RespStatus(sc["app"]))
       THEN /\ pc' = [pc EXCEPT !["app"] = "cfg_fail"]
            /\ UNCHANGED <<linfo, mac_addr, cfg_num>>
       ELSE LET info == SwappedInfo(resp[sc["app"]])
                num_iqueues == lio_hweight64(info.iqmask)
                num_oqueues == lio_hweight64(info.oqmask)
            IN  IF BadQueues(num_iqueues, num_oqueues)
                THEN /\ pc' = [pc EXCEPT !["app"] = "cfg_fail"]
                     /\ cfg_num' = [iq |-> num_iqueues, oq |-> num_oqueues]
                     /\ UNCHANGED <<linfo, mac_addr>>
                ELSE /\ cfg_num' = [iq |-> num_iqueues, oq |-> num_oqueues]
                     /\ linfo' = RecordedLinfo(info, num_iqueues, num_oqueues)
                     /\ mac_addr' = MacOf(Swap64(info.hw_addr))
                     /\ pc' = [pc EXCEPT !["app"] = "cfg_glist_lock"]
    /\ UNCHANGED <<port_configured, nb_queues, glist, intf_open, dev_link,
                   queue_vars, chan_vars, sc, lu, ctrl, app_vars, alarms, crashed,
                   env_vars>>

\* The bookkeeping sized to the requested count, lio_dev->nb_tx_queues.
GlistSize_Requested(num_iqueues) == nb_queues.tx

\* The number of elements the per-queue bookkeeping is allocated for:
\* sizeof(*lio_dev->glist_lock) * num_iqueues.
GlistSize(num_iqueues) == num_iqueues

\* What becomes of the soft command when configure returns -ENOMEM from the
\* glist allocations: the function returns with sc still allocated.
EnomemRelease ==
    /\ sc_owner' = [sc_owner EXCEPT ![sc["app"]] = "leaked"]
    /\ cmds' = Abandoned(cmds, "app")
    /\ sc' = [sc EXCEPT !["app"] = 0]
    /\ UNCHANGED <<status_word, resp>>

\* Lines 614-617: glist_lock = rte_zmalloc(...); if NULL return -ENOMEM.
cfg_glist_lock ==
    /\ ~crashed
    /\ pc["app"] = "cfg_glist_lock"
    /\ \/ /\ glist' = [glist EXCEPT !.lock = GlistSize(cfg_num.iq)]
          /\ pc' = [pc EXCEPT !["app"] = "cfg_glist_head"]
          /\ UNCHANGED <<chan_vars, sc, app_ret, cfg_num>>
       \/ /\ glist' = [glist EXCEPT !.lock = 0]
          /\ EnomemRelease
          /\ cfg_num' = NoCfgNum
          /\ Return(-ENOMEM)
    /\ UNCHANGED <<port_configured, nb_queues, linfo, mac_addr, intf_open,
                   dev_link, queue_vars, timeout, lu, ctrl, app_op, calls, alarms,
                   crashed, env_vars>>

\* Lines 619-628: glist_head = rte_zmalloc(...); on NULL free glist_lock and
\* return -ENOMEM; else call lio_dev_link_update.
cfg_glist_head ==
    /\ ~crashed
    /\ pc["app"] = "cfg_glist_head"
    /\ cfg_num' = NoCfgNum
    /\ \/ /\ glist' = [glist EXCEPT !.head = GlistSize(cfg_num.iq)]
          /\ CallLinkUpdate("app", "cfg_mark")
          /\ UNCHANGED <<chan_vars, sc, app_ret>>
       \/ /\ glist' = [lock |-> 0, head |-> 0]
          /\ EnomemRelease
          /\ Return(-ENOMEM)
          /\ lu' = lu
    /\ UNCHANGED <<port_configured, nb_queues, linfo, mac_addr, intf_open,
                   dev_link, queue_vars, timeout, ctrl, app_op, calls, alarms, crashed,
                   env_vars>>

\* Line 630: lio_dev->port_configured = 1;
cfg_mark ==
    /\ ~crashed
    /\ pc["app"] = "cfg_mark"
    /\ port_configured' = 1
    /\ pc' = [pc EXCEPT !["app"] = "cfg_free"]
    /\ UNCHANGED <<nb_queues, linfo, mac_addr, glist, intf_open, dev_link,
                   queue_vars, chan_vars, local_vars, app_vars, alarms, crashed,
                   env_vars>>

\* Line 632: lio_free_soft_command(sc);
cfg_free ==
    /\ ~crashed
    /\ pc["app"] = "cfg_free"
    /\ FreeSoftCommand("app")
    /\ pc' = [pc EXCEPT !["app"] = "cfg_teardown"]
    /\ UNCHANGED <<driver_vars, timeout, lu, cfg_num, ctrl, app_vars, alarms,
                   crashed, env_vars>>

\* lio_free_instr_queue0, lio_delete_instruction_queue
WithoutQueue(q) == [k \in DOMAIN instr_queue \ {q} |-> instr_queue[k]]

\* Lines 634-643: disable the io queues, reset the registers, free iq 0.
cfg_teardown ==
    /\ ~crashed
    /\ pc["app"] = "cfg_teardown"
    /\ instr_queue' = WithoutQueue(0)
    /\ Return(0)
    /\ UNCHANGED <<cfg_vars, intf_open, dev_link, tx_queues, chan_vars, local_vars,
                   app_op, calls, alarms, crashed, env_vars>>

\* Lines 645-650, nic_config_fail: free the soft command and iq 0.
cfg_fail ==
    /\ ~crashed
    /\ pc["app"] = "cfg_fail"
    /\ FreeSoftCommand("app")
    /\ instr_queue' = WithoutQueue(0)
    /\ cfg_num' = NoCfgNum
    /\ Return(-ENODEV)
    /\ UNCHANGED <<cfg_vars, intf_open, dev_link, tx_queues, timeout, lu, ctrl,
                   app_op, calls, alarms, crashed, env_vars>>

\* ---------------------------------------------------- lio_send_rx_ctrl_cmd
\* Called by the application thread, which goes on at `cont` when it returns.
CallSendRxCtrlCmd(start_stop, cont) ==
    /\ ctrl' = [ctrl EXCEPT !.start_stop = start_stop, !.cont = cont]
    /\ pc' = [pc EXCEPT !["app"] = "rx_flush"]

\* Line 74: lio_flush_iq(lio_dev, lio_dev->instr_queue[0]);
rx_flush ==
    /\ ~crashed
    /\ pc["app"] = "rx_flush"
    /\ FlushIq("app", "rx_send")

\* lio_send_rx_ctrl_cmd returns r: its ctrl_cmd goes out of scope.
RxReturn(r) ==
    /\ ctrl' = [NoCtrl EXCEPT !.ret = r]
    /\ cmds' = Abandoned(cmds, "app")
    /\ timeout' = [timeout EXCEPT !["app"] = 0]
    /\ pc' = [pc EXCEPT !["app"] = ctrl.cont]

\* Lines 76-89 (and 49): clear ctrl_cmd, build the packet, lio_send_ctrl_pkt.
rx_send ==
    /\ ~crashed
    /\ pc["app"] = "rx_send"
    /\ IF ~IqUsable THEN Fault
       ELSE /\ \/ /\ cmds' = Registered(cmds, "CTRL", 0, "app")
                  /\ ctrl' = [ctrl EXCEPT !.cond = 0]
                  /\ pc' = [pc EXCEPT !["app"] = "rx_wait"]
                  /\ timeout' = [timeout EXCEPT !["app"] = LIO_MAX_CMD_TIMEOUT]
               \/ RxReturn(-1)                      \* the send failed
            /\ UNCHANGED <<driver_vars, buf_vars, sc, lu, cfg_num, app_vars, alarms,
                           crashed, env_vars>>

\* Line 56 returning timeout for !timeout.
WaitTimedOut_Inverted(left) == left # 0

\* lio_wait_for_ctrl_cmd returns !timeout.
WaitTimedOut(left) == left = 0

\* Lines 51 and 56, 91-96: while ((ctrl_cmd->cond == 0) && --timeout), and the
\* return once the loop is left.
rx_wait ==
    /\ ~crashed
    /\ pc["app"] = "rx_wait"
    /\ IF ctrl.cond = 0 /\ timeout["app"] - 1 # 0
       THEN /\ timeout' = [timeout EXCEPT !["app"] = timeout["app"] - 1]
            /\ pc' = [pc EXCEPT !["app"] = "rx_wflush"]
            /\ UNCHANGED <<ctrl, cmds>>
       ELSE LET left == IF ctrl.cond = 0 THEN timeout["app"] - 1 ELSE timeout["app"]
            IN  RxReturn(IF WaitTimedOut(left) THEN -1 ELSE 0)
    /\ UNCHANGED <<driver_vars, buf_vars, sc, lu, cfg_num, app_vars, alarms,
                   crashed, env_vars>>

\* Lines 52-53: the loop body.
rx_wflush ==
    /\ ~crashed
    /\ pc["app"] = "rx_wflush"
    /\ FlushIq("app", "rx_wait")

\* ----------------------------------------------------------- lio_dev_start
\* Lines 455-461: enable the io queues, then send the RX-start command.
start_enable ==
    /\ ~crashed
    /\ pc["app"] = "idle"
    /\ Call(<<"start">>)
    /\ \/ /\ Return(-1)                    \* enable_io_queues failed
          /\ ctrl' = ctrl
       \/ /\ CallSendRxCtrlCmd(1, "start_open")
          /\ app_ret' = app_ret
    /\ UNCHANGED <<driver_vars, chan_vars, sc, timeout, lu, cfg_num, alarms,
                   crashed, env_vars>>

\* Lines 460-465: if (lio_send_rx_ctrl_cmd(eth_dev, 1)) return -1;
\* lio_dev->intf_open = 1;
start_open ==
    /\ ~crashed
    /\ pc["app"] = "start_open"
    /\ ctrl' = NoCtrl
    /\ IF ctrl.ret # 0
       THEN /\ Return(-1)
            /\ intf_open' = intf_open
       ELSE /\ intf_open' = 1
            /\ pc' = [pc EXCEPT !["app"] = "start_alarm"]
            /\ app_ret' = app_ret
    /\ UNCHANGED <<cfg_vars, dev_link, queue_vars, chan_vars, sc, timeout, lu,
                   cfg_num, app_op, calls, alarms, crashed, env_vars>>

\* Lines 467-477: rte_eal_alarm_set(LIO_LSC_TIMEOUT, lio_sync_link_state_check).
start_alarm ==
    /\ ~crashed
    /\ pc["app"] = "start_alarm"
    /\ \/ /\ alarms < MaxAlarms
          /\ alarms' = alarms + 1
          /\ Return(0)
       \/ /\ alarms' = alarms              \* the alarm could not be set
          /\ pc' = [pc EXCEPT !["app"] = "start_err"]
          /\ app_ret' = app_ret
    /\ UNCHANGED <<driver_vars, chan_vars, local_vars, app_op, calls, crashed, env_vars>>

\* Lines 479-481, dev_lsc_handle_error: close the interface, send RX-stop.
start_err ==
    /\ ~crashed
    /\ pc["app"] = "start_err"
    /\ intf_open' = 0
    /\ CallSendRxCtrlCmd(0, "start_ret")
    /\ UNCHANGED <<cfg_vars, dev_link, queue_vars, chan_vars, sc, timeout, lu,
                   cfg_num, app_vars, alarms, crashed, env_vars>>

\* Line 483: return ret; (the error rte_eal_alarm_set gave)
start_ret ==
    /\ ~crashed
    /\ pc["app"] = "start_ret"
    /\ ctrl' = NoCtrl
    /\ Return(-EINVAL)
    /\ UNCHANGED <<driver_vars, chan_vars, sc, timeout, lu, cfg_num, app_op, calls,
                   alarms, crashed, env_vars>>

\* ------------------------------------------------- lio_dev_tx_queue_setup
\* linfo.txpciq[q_no].s.q_no
TxpciqAt(q_no) == IF q_no + 1 <= Len(linfo.txpciq) THEN linfo.txpciq[q_no + 1] ELSE 0

\* lio_setup_iq: instr_queue[iq_no] exists with max_count descriptors.
WithQueue(iq_no, max_count) ==
    [k \in DOMAIN instr_queue \cup {iq_no} |->
        IF k = iq_no THEN max_count ELSE instr_queue[k]]

\* Lines 303-327: the checks and lio_setup_iq.  The arguments stay in app_op.
txq_setup_iq ==
    /\ ~crashed
    /\ pc["app"] = "idle"
    /\ \E q_no \in QueueNos : \E num_tx_descs \in tx_descs :
       LET fw_mapped_iq == TxpciqAt(q_no)
       IN  /\ Call(<<"tx_queue_setup", q_no, fw_mapped_iq>>)
           /\ IF q_no >= nb_queues.tx
              THEN /\ Return(-EINVAL)
                   /\ instr_queue' = instr_queue
              ELSE IF fw_mapped_iq \in DOMAIN instr_queue
                      /\ num_tx_descs # instr_queue[fw_mapped_iq]
              THEN /\ Return(-ENOTSUP)
                   /\ instr_queue' = instr_queue
              ELSE \/ /\ Return(-1)        \* lio_setup_iq failed
                      /\ instr_queue' = instr_queue
                   \/ /\ instr_queue' = WithQueue(fw_mapped_iq, num_tx_descs)
                      /\ pc' = [pc EXCEPT !["app"] = "txq_sglists"]
                      /\ app_ret' = app_ret
    /\ UNCHANGED <<cfg_vars, intf_open, dev_link, tx_queues, chan_vars, local_vars,
                   alarms, crashed, env_vars>>

\* Lines 329-340: lio_setup_sglists, which writes glist_lock[q_no] and
\* glist_head[q_no]; on failure the queue is deleted again.
txq_sglists ==
    /\ ~crashed
    /\ pc["app"] = "txq_sglists"
    /\ LET q_no == app_op[2]
           fw_mapped_iq == app_op[3]
       IN  IF q_no >= glist.lock \/ q_no >= glist.head
           THEN Fault
           ELSE /\ \/ /\ tx_queues' = [k \in DOMAIN tx_queues \cup {q_no} |->
                                          IF k = q_no THEN fw_mapped_iq
                                          ELSE tx_queues[k]]
                      /\ instr_queue' = instr_queue
                      /\ Return(0)
                   \/ /\ instr_queue' = WithoutQueue(fw_mapped_iq)
                      /\ tx_queues' = tx_queues
                      /\ Return(-ENOMEM)
                /\ UNCHANGED <<cfg_vars, intf_open, dev_link, chan_vars, local_vars,
                               app_op, calls, alarms, crashed, env_vars>>

\* --------------------------------------- the application's link_update call
link_update_call ==
    /\ ~crashed
    /\ pc["app"] = "idle"
    /\ Call(<<"link_update">>)
    /\ CallLinkUpdate("app", "idle")
    /\ UNCHANGED <<driver_vars, chan_vars, sc, timeout, cfg_num, ctrl, app_ret,
                   alarms, crashed, env_vars>>

link_update_step ==
    \E t \in Threads : lu_up(t) \/ lu_speed(t) \/ lu_read_dst(t) \/ lu_cmpset(t)

\* ------------------------------------------------------ lio_eth_dev_init
\* Before the probe: the private data is zeroed memory, nothing is set up.
InitAttach ==
    /\ port_configured = 0
    /\ intf_open = 0
    /\ nb_queues = [rx |-> 0, tx |-> 0]
    /\ linfo = ZeroLinfo
    /\ mac_addr = [i \in 0..5 |-> 0]
    /\ glist = [lock |-> 0, head |-> 0]
    /\ dev_link = LinkDownValue
    /\ instr_queue = <<>>
    /\ tx_queues = <<>>
    /\ sc_owner = [b \in Buffers |-> "nopool"]
    /\ status_word = [b \in Buffers |-> "ZERO"]
    /\ resp = [b \in Buffers |-> ZeroResp]
    /\ cmds = {}
    /\ alarms = 0
    /\ pc = [t \in Threads |-> IF t = "app" THEN "unprobed" ELSE "idle"]
    /\ sc = [t \in Threads |-> 0]
    /\ timeout = [t \in Threads |-> 0]
    /\ lu = [t \in Threads |-> NoLu]
    /\ cfg_num = NoCfgNum
    /\ ctrl = NoCtrl
    /\ app_op = <<"none">>
    /\ app_ret = 0
    /\ calls = 0
    /\ crashed = FALSE
    /\ fw_iqmasks = {{0}}
    /\ fw_oqmasks = {{0}}
    /\ fw_links = LinkWords
    /\ req_counts = {[rx |-> 2, tx |-> 2]}
    /\ tx_descs = {1}
    /\ hs_alarms = 0
    /\ coproc_tics_per_us = 0
    /\ mbox = "none"

\* What the steps of the probe leave alone.
attach_frame ==
    UNCHANGED <<cfg_vars, intf_open, dev_link, tx_queues, status_word, resp, cmds,
                sc, lu, cfg_num, ctrl, calls, alarms, crashed, input_vars>>

\* The probe goes on at `to`.
AttachGoto(to) ==
    /\ pc' = [pc EXCEPT !["app"] = to]
    /\ UNCHANGED <<app_op, app_ret>>

\* Lines 816-843: the BAR0 check, then into lio_first_time_init.
init_bar ==
    /\ ~crashed
    /\ pc["app"] = "unprobed"
    /\ app_op' = <<"init">>
    /\ \/ /\ pc' = [pc EXCEPT !["app"] = "fti_chip"]
          /\ app_ret' = app_ret
       \/ Return(-ENODEV)                  \* BAR0 is not mapped
    /\ attach_frame
    /\ UNCHANGED <<instr_queue, sc_owner, timeout, attach_vars>>

\* Lines 719-733: chip specific setup, the soft command pool, the response
\* list; either failure returns -1 at once.
fti_chip ==
    /\ ~crashed
    /\ pc["app"] = "fti_chip"
    /\ \/ /\ AttachGoto("fti_failed")      \* lio_chip_specific_setup failed
          /\ sc_owner' = sc_owner
       \/ /\ AttachGoto("fti_failed")      \* lio_setup_sc_buffer_pool failed
          /\ sc_owner' = sc_owner
       \/ /\ AttachGoto("fti_mbox")
          /\ sc_owner' = [b \in Buffers |-> "pool"]
    /\ attach_frame
    /\ UNCHANGED <<instr_queue, timeout, attach_vars>>

\* Lines 735-738: fn_list.setup_mbox.
fti_mbox ==
    /\ ~crashed
    /\ pc["app"] = "fti_mbox"
    /\ \/ /\ AttachGoto("fti_error")
          /\ mbox' = mbox
       \/ /\ AttachGoto("fti_hs_check")
          /\ mbox' = "up"
    /\ attach_frame
    /\ UNCHANGED <<instr_queue, sc_owner, timeout, hs_alarms, coproc_tics_per_us>>

\* Line 670: if (dev->pfvf_hsword.coproc_tics_per_us) return;
HsResponded(tics) == tics # 0

\* cn23xx_vf_handle_mbox: reads the mailbox and runs the handler of what it
\* finds; the PF's answer to the handshake request, once the request is out,
\* sets coproc_tics_per_us.  Run on a mailbox that was freed it reads freed
\* memory: it may find nothing or bring the process down.
HandleMbox ==
    IF mbox = "up"
    THEN /\ coproc_tics_per_us' \in
               IF pc["app"] = "fti_hs_wait" /\ coproc_tics_per_us = 0
               THEN {0} \cup TicsValues ELSE {coproc_tics_per_us}
         /\ crashed' = crashed
    ELSE /\ coproc_tics_per_us' = coproc_tics_per_us
         /\ crashed' \in {crashed, TRUE}

\* rte_eal_alarm_set(1, lio_check_pf_hs_response, lio_dev); it can fail, and
\* its result is not looked at.
HsArm == hs_alarms' \in {hs_alarms, hs_alarms + 1}

\* Line 741: lio_check_pf_hs_response called by lio_first_time_init itself.
fti_hs_check ==
    /\ ~crashed
    /\ pc["app"] = "fti_hs_check"
    /\ IF HsResponded(coproc_tics_per_us)
       THEN UNCHANGED <<hs_alarms, coproc_tics_per_us, crashed>>
       ELSE HandleMbox /\ HsArm
    /\ AttachGoto("fti_handshake")
    /\ UNCHANGED <<cfg_vars, intf_open, dev_link, queue_vars, chan_vars, local_vars,
                   calls, alarms, input_vars, mbox>>

\* cn23xx_pfvf_handshake, line 744: the request goes out ...
fti_handshake ==
    /\ ~crashed
    /\ pc["app"] = "fti_handshake"
    /\ \/ /\ AttachGoto("fti_error")       \* the write to the mailbox failed
          /\ timeout' = timeout
       \/ /\ AttachGoto("fti_hs_wait")
          /\ timeout' = [timeout EXCEPT !["app"] = HandshakeBudget]
    /\ attach_frame
    /\ UNCHANGED <<instr_queue, sc_owner, attach_vars>>

\* ... and the answer is waited for, HandshakeBudget polls long; an answer
\* of an incompatible PF driver fails the handshake as no answer does.
fti_hs_wait ==
    /\ ~crashed
    /\ pc["app"] = "fti_hs_wait"
    /\ IF HsResponded(coproc_tics_per_us)
       THEN /\ \/ AttachGoto("fti_io_off")
               \/ AttachGoto("fti_error")
            /\ timeout' = [timeout EXCEPT !["app"] = 0]
       ELSE IF timeout["app"] - 1 # 0
       THEN /\ timeout' = [timeout EXCEPT !["app"] = timeout["app"] - 1]
            /\ UNCHANGED <<pc, app_op, app_ret>>
       ELSE /\ timeout' = [timeout EXCEPT !["app"] = 0]
            /\ AttachGoto("fti_error")
    /\ attach_frame
    /\ UNCHANGED <<instr_queue, sc_owner, attach_vars>>

\* Lines 747-760: the reset, cn23xx_vf_set_io_queues_off, setup_device_regs.
fti_io_off ==
    /\ ~crashed
    /\ pc["app"] = "fti_io_off"
    /\ \/ AttachGoto("fti_error")          \* setting the io queues off failed
       \/ AttachGoto("fti_error")          \* setup_device_regs failed
       \/ AttachGoto("fti_iq0")
    /\ attach_frame
    /\ UNCHANGED <<instr_queue, sc_owner, timeout, attach_vars>>

\* Lines 762-776: lio_setup_instr_queue0, the queue limits, enable_io_queues.
fti_iq0 ==
    /\ ~crashed
    /\ pc["app"] = "fti_iq0"
    /\ \/ /\ AttachGoto("fti_error")       \* lio_setup_instr_queue0 failed
          /\ instr_queue' = instr_queue
       \/ /\ AttachGoto("fti_error")       \* enable_io_queues failed
          /\ instr_queue' = WithQueue(0, 1)
       \/ /\ AttachGoto("init_mac")        \* return 0
          /\ instr_queue' = WithQueue(0, 1)
    /\ attach_frame
    /\ UNCHANGED <<sc_owner, timeout, attach_vars>>

\* Lines 778-785, error: free the pool, the mailbox and instruction queue 0.
fti_error ==
    /\ ~crashed
    /\ pc["app"] = "fti_error"
    /\ sc_owner' = [b \in Buffers |-> "nopool"]
    /\ mbox' = IF mbox = "up" THEN "freed" ELSE mbox
    /\ instr_queue' = WithoutQueue(0)
    /\ AttachGoto("fti_failed")
    /\ attach_frame
    /\ UNCHANGED <<timeout, hs_alarms, coproc_tics_per_us>>

\* Lines 843-846: lio_first_time_init failed, lio_eth_dev_init returns -EINVAL.
init_fail ==
    /\ ~crashed
    /\ pc["app"] = "fti_failed"
    /\ Return(-EINVAL)
    /\ app_op' = app_op
    /\ attach_frame
    /\ UNCHANGED <<instr_queue, sc_owner, timeout, attach_vars>>

\* Lines 848-866: the MAC address array, the device status, port_configured.
init_mac ==
    /\ ~crashed
    /\ pc["app"] = "init_mac"
    /\ \/ Return(-ENOMEM)
       \/ Return(0)
    /\ app_op' = app_op
    /\ attach_frame
    /\ UNCHANGED <<instr_queue, sc_owner, timeout, attach_vars>>

\* --------------------------------------------- lio_check_pf_hs_response
\* What the steps of the poll leave alone.
poll_frame ==
    UNCHANGED <<driver_vars, chan_vars, local_vars, app_vars, alarms, input_vars, mbox>>

\* The alarm thread takes a pending alarm and runs lio_check_pf_hs_response.
hs_alarm_fire ==
    /\ ~crashed
    /\ pc["tick"] = "idle"
    /\ hs_alarms > 0
    /\ hs_alarms' = hs_alarms - 1
    /\ pc' = [pc EXCEPT !["tick"] = "hs_check"]
    /\ poll_frame
    /\ UNCHANGED <<coproc_tics_per_us, crashed>>

\* Lines 669-671: check till response arrives.
hs_check ==
    /\ ~crashed
    /\ pc["tick"] = "hs_check"
    /\ pc' = [pc EXCEPT !["tick"] = IF HsResponded(coproc_tics_per_us)
                                    THEN "idle" ELSE "hs_mbox"]
    /\ poll_frame
    /\ UNCHANGED <<hs_alarms, coproc_tics_per_us, crashed>>

\* Line 673: cn23xx_vf_handle_mbox(dev);
hs_mbox ==
    /\ ~crashed
    /\ pc["tick"] = "hs_mbox"
    /\ HandleMbox
    /\ pc' = [pc EXCEPT !["tick"] = "hs_arm"]
    /\ poll_frame
    /\ hs_alarms' = hs_alarms

\* Line 675: rte_eal_alarm_set(1, lio_check_pf_hs_response, lio_dev);
hs_arm ==
    /\ ~crashed
    /\ pc["tick"] = "hs_arm"
    /\ HsArm
    /\ pc' = [pc EXCEPT !["tick"] = "idle"]
    /\ poll_frame
    /\ UNCHANGED <<coproc_tics_per_us, crashed>>

Tick ==
    \/ alarm_fire \/ sync_check \/ gls_open \/ gls_alloc \/ gls_send
    \/ gls_wait \/ gls_flush \/ gls_resp \/ gls_free \/ sync_rearm

Configure ==
    \/ cfg_entry \/ cfg_send \/ cfg_wait \/ cfg_flush \/ cfg_resp
    \/ cfg_glist_lock \/ cfg_glist_head \/ cfg_mark \/ cfg_free
    \/ cfg_teardown \/ cfg_fail

Start ==
    \/ start_enable \/ start_open \/ start_alarm \/ start_err \/ start_ret
    \/ rx_flush \/ rx_send \/ rx_wait \/ rx_wflush

Device ==
    \/ device_complete_info \/ device_complete_if_cfg \/ device_complete_ctrl

Next ==
    \/ Tick
    \/ Configure
    \/ Start
    \/ txq_setup_iq \/ txq_sglists
    \/ link_update_call
    \/ link_update_step
    \/ app_return
    \/ Device

Spec == Init /\ [][Next]_vars

NextCfg ==
    \/ Configure
    \/ txq_setup_iq \/ txq_sglists
    \/ link_update_step
    \/ app_return
    \/ device_complete_if_cfg

SpecCfg == InitCfg /\ [][NextCfg]_vars

Attach ==
    \/ init_bar \/ fti_chip \/ fti_mbox \/ fti_hs_check \/ fti_handshake
    \/ fti_hs_wait \/ fti_io_off \/ fti_iq0 \/ fti_error \/ init_fail \/ init_mac

Poll ==
    \/ hs_alarm_fire \/ hs_check \/ hs_mbox \/ hs_arm

\* The probe of the device and the handshake poll it arms.
NextAttach ==
    \/ Attach
    \/ Poll

SpecAttach == InitAttach /\ [][NextAttach]_vars

\* The probe runs on, and the alarm thread runs every alarm that is due.
SpecAttachLive ==
    /\ InitAttach
    /\ [][NextAttach]_vars
    /\ WF_vars(Attach)
    /\ WF_vars(Poll)

\* ================================================================ claims
\* The thread is not inside the call that submitted commands of this kind.
Left(kind) ==
    IF kind = "INFO" THEN pc["tick"] \in {"idle", "sync_rearm"}
    ELSE IF kind = "IF_CFG" THEN pc["app"] \in {"idle", "returned"}
    ELSE pc["app"] \notin {"rx_flush", "rx_send", "rx_wait", "rx_wflush"}

\* The command thread t submitted and still waits for has not been completed.
OwnPending(t) == \E e \in cmds : e.owner = t /\ e.pend

\* The device has completed the command thread t submitted.
OwnCompleted(t) == \E e \in cmds : e.owner = t /\ ~e.pend

\* C1: once the operation that submitted a command has returned without the
\* device having completed it, the response registry no longer holds the
\* command.
C1_NoLeakedEntry ==
    \A e \in cmds : (e.owner = "none" /\ e.pend /\ Left(e.kind)) => ~e.reg

\* C2: a tick whose status command was not submitted, or was not completed by
\* the device when the wait ended, takes the failure path, and the failure
\* path changes neither the cached link-status word nor the published link.
C2_FailedTickChangesNothing ==
    [][/\ (pc["tick"] = "gls_resp" /\ pc'["tick"] # "gls_resp" /\ OwnPending("tick"))
           => (pc'["tick"] = "gls_fail" /\ linfo' = linfo /\ dev_link' = dev_link)
       /\ (pc["tick"] = "gls_fail" /\ pc'["tick"] # "gls_fail")
           => (linfo' = linfo /\ dev_link' = dev_link /\ app_ret' = app_ret
               /\ crashed' = crashed)]_vars

\* C3: no command is released by its caller (its buffer freed, or its stack
\* storage left behind) while the device has still to complete it.
C3_NoReleaseInFlight ==
    \A e \in cmds : e.owner = "none" => ~e.pend

\* C4: when a tick whose own status command the device completed has stored
\* a new link-status word and returns, the published link is the translation
\* of that word.
C4_PublishedAtReturn ==
    [][(pc["tick"] = "gls_updated" /\ pc'["tick"] = "sync_rearm" /\ OwnCompleted("tick"))
          => dev_link' = LinkOf(linfo'.link)]_vars

\* C5: the published link is always one of (down, none, half), (up, 10G, full)
\* and (up, none, half): no mix of the fields of two publications.
C5_WholeValue ==
    dev_link \in {[link_status |-> "DOWN", link_speed |-> "NONE", link_duplex |-> "HALF"],
                  [link_status |-> "UP", link_speed |-> "10G", link_duplex |-> "FULL"],
                  [link_status |-> "UP", link_speed |-> "NONE", link_duplex |-> "HALF"]}

\* Both threads are about to publish, each a different link, the tick's an
\* unrecognized speed.
C5_Witness ==
    /\ pc["tick"] = "lu_cmpset"
    /\ pc["app"] = "lu_cmpset"
    /\ lu["tick"].link # lu["app"].link
    /\ lu["tick"].link = [link_status |-> "UP", link_speed |-> "NONE", link_duplex |-> "HALF"]

\* C6: once the port is configured, a configure call with the recorded counts
\* returns 0 and one with other counts returns an error, both without
\* submitting a command or changing the device state; and the recorded counts,
\* the granted counts and the configured flag never change again.
C6_Reconfigure ==
    [][port_configured = 1 =>
         /\ port_configured' = 1
         /\ nb_queues' = nb_queues
         /\ linfo'.num_txpciq = linfo.num_txpciq
         /\ linfo'.num_rxpciq = linfo.num_rxpciq
         /\ (pc["app"] = "idle" /\ app_op'[1] = "configure") =>
               /\ pc'["app"] = "returned"
               /\ (app_op'[2] = nb_queues => app_ret' = 0)
               /\ (app_op'[2] # nb_queues => app_ret' = -ENOTSUP)
               /\ UNCHANGED <<driver_vars, chan_vars, alarms, crashed>>]_vars

\* A configure call with other counts was rejected on a configured port.
C6_Witness ==
    /\ port_configured = 1
    /\ pc["app"] = "returned"
    /\ app_op[1] = "configure"
    /\ app_op[2] # nb_queues
    /\ app_ret = -ENOTSUP

\* The masks of the response the application's configure call holds.
GrantedIqMask == Swap64(resp[sc["app"]].iqmask)
GrantedOqMask == Swap64(resp[sc["app"]].oqmask)

\* Masks with bits in every byte, half and quarter of the word.
HweightMasks ==
    {Bits, 0..31, 32..63, {63}, {b \in Bits : b % 2 = 1}, {b \in Bits : b % 8 = 7},
     {b \in Bits : b % 4 < 3}, {15, 16, 47, 48}}

\* C7: lio_hweight64 counts the set bits; configure records the population
\* counts of the returned masks as the granted counts and sizes glist_lock and
\* glist_head to the granted input-queue count.
C7_GrantedCounts ==
    /\ calls = 0 =>
          \A m \in fw_iqmasks \cup fw_oqmasks \cup HweightMasks :
             lio_hweight64(m) = Cardinality(m)
    /\ pc["app"] \in {"cfg_glist_lock", "cfg_glist_head", "cfg_mark", "cfg_free"} =>
          /\ linfo.num_txpciq = Cardinality(GrantedIqMask)
          /\ linfo.num_rxpciq = Cardinality(GrantedOqMask)
    /\ pc["app"] = "cfg_glist_head" => glist.lock = linfo.num_txpciq
    /\ (pc["app"] = "cfg_mark" \/ port_configured = 1) =>
          /\ glist.lock = linfo.num_txpciq
          /\ glist.head = linfo.num_txpciq

\* The firmware granted two input queues (mask 0b101) where one was asked for.
C7_Witness ==
    /\ port_configured = 1
    /\ pc["app"] = "cfg_free"
    /\ GrantedIqMask = {0, 2}
    /\ nb_queues.tx = 1
    /\ glist = [lock |-> 2, head |-> 2]

\* C8: when the wait of lio_dev_configure ends without the device having
\* completed the command, configure takes the failure path without counting
\* or recording anything of the response, and the failure path returns
\* -ENODEV and leaves the port unconfigured.
C8_TimeoutFails ==
    [][/\ (pc["app"] = "cfg_resp" /\ pc'["app"] # "cfg_resp" /\ OwnPending("app"))
           => (pc'["app"] = "cfg_fail" /\ UNCHANGED <<cfg_num, cfg_vars>>)
       /\ (pc["app"] = "cfg_fail" /\ pc'["app"] # "cfg_fail")
           => (pc'["app"] = "returned" /\ app_ret' = -ENODEV /\ port_configured' = 0)]_vars

\* Configure returned -ENODEV and left behind a command the device has not
\* completed.
C8_Witness ==
    /\ pc["app"] = "returned"
    /\ app_op[1] = "configure"
    /\ app_ret = -ENODEV
    /\ port_configured = 0
    /\ \E e \in cmds : e.kind = "IF_CFG" /\ e.owner = "none" /\ e.pend

\* The completed response the application's configure call holds has an
\* empty input-queue or output-queue mask.
EmptyMaskResponse ==
    /\ status_word[sc["app"]] = "ZERO"
    /\ (GrantedIqMask = {} \/ GrantedOqMask = {})

\* C9: on a completed response with an empty mask configure takes the failure
\* path without recording anything, and the failure path returns -ENODEV
\* with the port unconfigured and nothing recorded or allocated.
C9_EmptyMaskFails ==
    [][/\ (pc["app"] = "cfg_resp" /\ pc'["app"] # "cfg_resp" /\ EmptyMaskResponse)
           => (pc'["app"] = "cfg_fail" /\ UNCHANGED <<cfg_vars, dev_link>>)
       /\ (pc["app"] = "cfg_fail" /\ pc'["app"] # "cfg_fail")
           => /\ pc'["app"] = "returned"
              /\ app_ret' = -ENODEV
              /\ port_configured' = 0
              /\ glist' = [lock |-> 0, head |-> 0]
              /\ UNCHANGED <<cfg_vars, dev_link>>]_vars

\* Configure is on the failure path with a completed response whose
\* input-queue mask alone is empty.
C9_Witness ==
    /\ pc["app"] = "cfg_fail"
    /\ EmptyMaskResponse
    /\ GrantedOqMask # {}

\* C10: when configure has returned an error, no soft command and no glist
\* array is left allocated.
C10_FailureReleasesAll ==
    (pc["app"] = "returned" /\ app_op[1] = "configure" /\ app_ret < 0
        /\ port_configured = 0) =>
        /\ \A b \in Buffers : sc_owner[b] = "pool"
        /\ glist = [lock |-> 0, head |-> 0]

\* C11: when the first configure call on a freshly initialised device has
\* returned a failure, the recorded queue counts, the granted counts and
\* routing identifiers, the cached link-status word, the hardware address and
\* the published link are what they were before the call.
C11_FailureRestores ==
    (pc["app"] = "returned" /\ app_op[1] = "configure" /\ app_ret < 0 /\ calls = 1) =>
        /\ nb_queues = [rx |-> 0, tx |-> 0]
        /\ linfo = ZeroLinfo
        /\ mac_addr = [i \in 0..5 |-> 0]
        /\ dev_link = LinkDownValue

\* Ticks that are armed or executing.
TicksLive == alarms + (IF pc["tick"] = "idle" THEN 0 ELSE 1)

C13_OneTick == TicksLive <= 1

\* C14: lio_send_rx_ctrl_cmd reports success to lio_dev_start only when the
\* device has completed the RX-start command of this call; the interface is
\* opened only on that success; a call that fails, started on a closed
\* interface, leaves the interface closed and has armed no tick.
C14_OpenAfterRxStart ==
    [][/\ (pc["app"] = "rx_wait" /\ pc'["app"] = "start_open" /\ ctrl'.ret = 0)
             => OwnCompleted("app")
       /\ (intf_open = 0 /\ intf_open' = 1)
             => (pc["app"] = "start_open" /\ ctrl.ret = 0)
       /\ (pc["app"] = "start_alarm" /\ alarms' > alarms)
             => (pc'["app"] = "returned" /\ app_ret' = 0)
       /\ (pc["app"] \in {"idle", "start_open"} /\ pc'["app"] = "returned"
              /\ app_op'[1] = "start" /\ intf_open = 0)
             => (app_ret' < 0 /\ intf_open' = 0 /\ alarms' <= alarms)
       /\ (pc["app"] = "start_ret" /\ pc'["app"] = "returned")
             => (app_ret' < 0 /\ intf_open' = 0 /\ alarms' <= alarms)]_vars

\* The loop condition and the loop body of each completion wait.
WaitHead(t) == IF t = "tick" THEN {"gls_wait"} ELSE {"cfg_wait", "rx_wait"}
WaitBody(t) == IF t = "tick" THEN {"gls_flush"} ELSE {"cfg_flush", "rx_wflush"}

\* The completion flag the wait of thread t polls is set.
FlagSet(t) ==
    IF pc[t] \in {"rx_wait", "rx_wflush"} THEN ctrl.cond # 0
    ELSE status_word[sc[t]] # "INIT"

\* In a wait, the budget left is between 1 and LIO_MAX_CMD_TIMEOUT, and
\* below LIO_MAX_CMD_TIMEOUT inside the loop body.
WaitBudget ==
    \A t \in Threads :
       /\ pc[t] \in WaitHead(t) => (timeout[t] >= 1 /\ timeout[t] <= LIO_MAX_CMD_TIMEOUT)
       /\ pc[t] \in WaitBody(t) => (timeout[t] >= 1 /\ timeout[t] <= LIO_MAX_CMD_TIMEOUT - 1)

\* C16: every pass through the body of a completion wait takes one from the
\* budget, which starts at LIO_MAX_CMD_TIMEOUT and never reaches the body at
\* zero (at most LIO_MAX_CMD_TIMEOUT - 1 passes); the body is entered only
\* with the flag unset and does the flush before the flag is looked at again;
\* a wait that finds the flag set ends; lio_wait_for_ctrl_cmd reports a
\* timeout exactly when the budget ran out with the flag unset.
C16_BoundedWait ==
    [][/\ WaitBudget /\ WaitBudget'
       /\ \A t \in Threads :
          /\ (pc[t] \in WaitHead(t) /\ pc'[t] \in WaitBody(t))
                => (~FlagSet(t) /\ timeout'[t] = timeout[t] - 1)
          /\ (pc[t] \in WaitHead(t) /\ pc'[t] # pc[t] /\ FlagSet(t))
                => pc'[t] \notin WaitBody(t)
          /\ (pc[t] \in WaitHead(t) /\ pc'[t] # pc[t] /\ pc'[t] \notin WaitBody(t))
                => (FlagSet(t) \/ timeout[t] = 1)
          /\ (pc[t] \in WaitBody(t) /\ pc'[t] # pc[t])
                => /\ pc'[t] \in WaitHead(t)
                   /\ timeout'[t] = timeout[t]
                   /\ cmds' = Flushed(cmds)
       /\ (pc["app"] = "rx_wait" /\ pc'["app"] \notin {"rx_wait", "rx_wflush"})
             => (ctrl'.ret # 0 <=> (ctrl.cond = 0 /\ timeout["app"] = 1))]_vars

\* lio_wait_for_ctrl_cmd is in the last pass its budget allows, the flag
\* still unset.
C16_Witness ==
    /\ pc["app"] = "rx_wflush"
    /\ timeout["app"] = 1
    /\ ctrl.cond = 0
    /\ OwnPending("app")

\* Both glist arrays are allocated.
GlistAllocated == glist.lock > 0 /\ glist.head > 0

\* C18: configure records the granted counts and routing identifiers only of
\* a response with status 0 and both masks non-empty, allocates the glist
\* arrays only after recording, marks the port configured only with both
\* arrays allocated and instruction queue 0 still there, and on its way to
\* returning 0 tears queue 0 down only with the port marked configured.
C18_ConfigureOrder ==
    [][/\ (pc["app"] = "cfg_resp" /\ linfo' # linfo)
             => /\ status_word[sc["app"]] = "ZERO"
                /\ GrantedIqMask # {} /\ GrantedOqMask # {}
                /\ port_configured = 0 /\ ~GlistAllocated
       /\ (glist' # glist /\ glist'.lock + glist'.head > glist.lock + glist.head)
             => /\ linfo.num_txpciq = Cardinality(GrantedIqMask)
                /\ linfo.num_rxpciq = Cardinality(GrantedOqMask)
                /\ linfo.num_txpciq > 0 /\ linfo.num_rxpciq > 0
                /\ port_configured = 0
       /\ (port_configured = 0 /\ port_configured' = 1)
             => (GlistAllocated /\ IqUsable)
       /\ (port_configured = 1 => GlistAllocated)
       /\ (port_configured' = 1 => GlistAllocated')
       /\ (pc["app"] = "cfg_teardown" /\ pc'["app"] = "returned")
             => /\ port_configured = 1
                /\ app_ret' = 0
                /\ 0 \notin DOMAIN instr_queue']_vars

\* The first configure call has returned 0: the port is configured, the
\* bookkeeping allocated and instruction queue 0 gone.
C18_Witness ==
    /\ pc["app"] = "returned"
    /\ app_op[1] = "configure"
    /\ app_ret = 0
    /\ calls = 1
    /\ port_configured = 1
    /\ GlistAllocated
    /\ ~IqUsable

\* No tick is executing and the application is in no call.
Quiet == pc["tick"] = "idle" /\ pc["app"] \in {"idle", "returned"}

\* C19: with no tick and no call in progress, on a configured port, the
\* published link is the translation of the cached link-status word; its
\* status is up exactly when the cached link_up bit is set.
C19_PublishedMatchesCache ==
    (Quiet /\ port_configured = 1) =>
        /\ dev_link = LinkOf(linfo.link)
        /\ (dev_link.link_status = "UP" <=> link_up_of(linfo.link) = 1)

\* A sender's post has failed and the sender goes to report the failure.
SubmitFailedStep ==
    \/ pc["tick"] = "gls_send" /\ pc'["tick"] = "gls_fail"
    \/ pc["app"] = "cfg_send" /\ pc'["app"] = "cfg_fail"
    \/ pc["app"] = "rx_send" /\ pc'["app"] \notin {"rx_send", "rx_wait"}

\* C17: a sender reports a submit failure only after the instruction queue
\* was flushed for the post that failed: no command the device has completed
\* is left in the registry when the failure is reported.
C17_FlushBeforeSubmitFailed ==
    [][SubmitFailedStep => \A e \in cmds' : ~(e.reg /\ ~e.pend)]_vars

\* A handshake poll is armed or executing.
PollLive == hs_alarms > 0 \/ pc["tick"] # "idle"

\* C15: the handshake poll stops for good: from some point on no poll is
\* armed or executing (or the process is down), whether or not the PF ever
\* publishes its timing reference.
C15_PollStops == <>[](crashed \/ ~PollLive)

\* lio_first_time_init has returned -1.
FtiFailed ==
    \/ pc["app"] = "fti_failed"
    \/ pc["app"] = "returned" /\ app_op[1] = "init" /\ app_ret = -EINVAL

\* C20: once lio_first_time_init has failed no handshake poll is armed or
\* executing, and the poll never handles a mailbox that is not set up.
C20_NoPollAfterFailure ==
    /\ FtiFailed => ~PollLive
    /\ pc["tick"] = "hs_mbox" => mbox = "up"

\* C21: whenever lio_send_rx_ctrl_cmd or lio_wait_for_ctrl_cmd is about to
\* flush or post on instruction queue 0, the queue exists: it is not used
\* after lio_dev_configure freed it unless it was set up again in between.
C21_Iq0Exists ==
    pc["app"] \in {"rx_flush", "rx_send", "rx_wflush"} => IqUsable

\* A call of lio_dev_tx_queue_setup on a configured port: its first step.
TxSetupStep ==
    /\ pc["app"] = "idle"
    /\ port_configured = 1
    /\ app_op'[1] = "tx_queue_setup"

\* The call was refused with -EINVAL and changed nothing.
TxSetupRejected ==
    /\ pc'["app"] = "returned"
    /\ app_ret' = -EINVAL
    /\ UNCHANGED <<driver_vars, chan_vars>>

\* C22: after a successful lio_dev_configure a queue setup accepts a queue
\* index only if it is below the count the firmware granted (the popcount of
\* the returned mask, linfo.num_txpciq), so that its routing identifier was
\* recorded from the response; any other index is rejected with -EINVAL and
\* nothing changes.
C22_AcceptOnlyGranted ==
    [][(TxSetupStep /\ app_op'[2] >= linfo.num_txpciq) => TxSetupRejected]_vars

\* The application's call of lio_dev_link_update returns: the step from
\* rte_atomic64_cmpset to the caller.
LinkUpdateReturns ==
    /\ pc["app"] = "lu_cmpset"
    /\ lu["app"].cont = "idle"
    /\ pc'["app"] = "returned"

\* rte_atomic64_cmpset found the expected value in dev_link and stored the
\* snapshot: the call published it.
LinkPublished ==
    /\ dev_link = lu["app"].dst
    /\ dev_link' = lu["app"].link

\* C23: lio_dev_link_update returns 0 exactly when it published a snapshot
\* whose status is up, and -1 when it published status down or the atomic
\* write failed, whether or not the value differs from the one published
\* before.
C23_LinkUpdateResult ==
    [][LinkUpdateReturns =>
          /\ app_ret' \in {0, -1}
          /\ app_ret' = 0 <=> (LinkPublished /\ lu["app"].link.link_status = "UP")]_vars

\* The application called lio_dev_link_update and got 0 with the link
\* published up.
C23_Witness ==
    /\ pc["app"] = "returned"
    /\ app_op = <<"link_update">>
    /\ app_ret = 0
    /\ dev_link.link_status = "UP"

====
